---- MODULE Spec2Model ----
(***************************************************************************)
(* Model of classDocument.Document: the per-sentence AMR -> RDF            *)
(* conversion, the assembly of the document graph and the coreference      *)
(* overlay.  Strings are sequences of tokens (one character or one fixed   *)
(* marker per token); an RDF term is a record [kind, v]; a triple is a     *)
(* 3-tuple of terms; a graph is a set of triples.  Python indices are      *)
(* 0-based, sequences here are 1-based: sentences[i + 1] is                *)
(* self.sentences[i].                                                      *)
(***************************************************************************)
EXTENDS Integers, Sequences, FiniteSets, TLC

\* ---------------------------------------------------------------- bounds
MaxSentences == 2
MaxPasses == 2
MaxSingle == 1

\* ------------------------------------------------------- strings and terms
Min(S) == CHOOSE x \in S : \A y \in S : x <= y

Digit(d) ==
    CASE d = 0 -> "0" [] d = 1 -> "1" [] d = 2 -> "2" [] d = 3 -> "3"
      [] d = 4 -> "4" [] d = 5 -> "5" [] d = 6 -> "6" [] d = 7 -> "7"
      [] d = 8 -> "8" [] d = 9 -> "9"

RECURSIVE Decimal(_)
\* str(n) of a non-negative int, as the f-string formats it
Decimal(n) == IF n < 10 THEN <<Digit(n)>>
              ELSE Decimal(n \div 10) \o <<Digit(n % 10)>>

None == [isNone |-> TRUE, s |-> <<>>]
Some(s) == [isNone |-> FALSE, s |-> s]

\* str(x) inside an f-string: None formats as the text "None"
Format(x) == IF x.isNone THEN <<"N", "o", "n", "e">> ELSE x.s

URIRef(v) == [kind |-> "uri", v |-> v]
Literal(v) == [kind |-> "lit", v |-> v]

RDF_type == URIRef(<<"http://www.w3.org/1999/02/22-rdf-syntax-ns#", "type">>)
RDFS_label == URIRef(<<"http://www.w3.org/2000/01/rdf-schema#", "label">>)

\* coreference = rdflib.Namespace("http://example.org/cluster/")
coreference(name) == URIRef(<<"http://example.org/cluster/", name>>)

\* ------------------------------------------------------ sentence metadata
IdMarker == "# ::id "
Whitespace == {" ", "\n", "\t"}
\* \S : the marker token contains blanks, so a run of \S never spans it
NonSpace(c) == c \notin Whitespace /\ c # IdMarker

MetaWithId == <<IdMarker, "a", "1", ".", "s", "e", "n", "t", "1", "\n", "(", "x", ")">>
MetaNoId == <<"#", " ", ":", ":", "s", "n", "t", " ", "h", "i", "\n", "(", "x", ")">>
MetaBlankInId == <<IdMarker, "a", "1", " ", "b", ".", "s", "\n", "(", "x", ")">>
MetaDotted == <<"\n", IdMarker, "b", ".", "2", ".", "s", "1", "\n", "(", "x", ")">>
FirstMetaChoices == {MetaWithId, MetaNoId, MetaBlankInId, MetaDotted}
\* metadata of the later sentences: "# ::id a1.sent<i+1>"
LaterMeta(i) == <<IdMarker, "a", "1", ".", "s", "e", "n", "t">> \o Decimal(i + 1)

RECURSIVE lstrip(_)
lstrip(s) == IF s # <<>> /\ Head(s) \in Whitespace THEN lstrip(Tail(s)) ELSE s
RECURSIVE rstrip(_)
rstrip(s) == IF s # <<>> /\ s[Len(s)] \in Whitespace
             THEN rstrip(SubSeq(s, 1, Len(s) - 1)) ELSE s
strip(s) == rstrip(lstrip(s))

\* ends q of the matches of  (\S+?)\.  that start right after position p
MatchEnds(meta, p) ==
    {q \in (p + 2)..Len(meta) :
        meta[q] = "." /\ \A k \in (p + 1)..(q - 1) : NonSpace(meta[k])}

\* re.search(r'# ::id (\S+?)\.', self.sentences[0][2]) : leftmost, lazy
extract_article_namespace(snts) ==
    LET meta == snts[1]
        starts == {p \in 1..Len(meta) :
                     meta[p] = IdMarker /\ MatchEnds(meta, p) # {}}
    IN IF starts = {} THEN None
       ELSE LET p == Min(starts)
                q == Min(MatchEnds(meta, p))
            IN Some(strip(SubSeq(meta, p + 1, q - 1)))

\* ----------------------------------------------- the external converter
\* What one run of amr-ld/my_amr_to_rdf.py does for a sentence.  The script
\* is a black box: it exits 0 with a complete N3 document ("ok"), exits 0
\* with text that is not well-formed N3 ("malformed"), exits non-zero with
\* nothing on stdout ("fail"), or writes bytes that communicate() cannot
\* decode ("undecodable", UnicodeDecodeError).  It is deterministic for a
\* given sentence.
ConverterKinds == {"ok", "malformed", "fail", "undecodable"}

ExitCode(kind) == IF kind = "fail" THEN 1 ELSE 0

AmrData == "http://amr.isi.edu/amr_data/"
\* the triple the converter emits for the root of sentence i
OwnTriple(i) ==
    << URIRef(<<AmrData, "a", "1", ".sent">> \o Decimal(i + 1) \o <<"#", "root01">>),
       RDF_type,
       URIRef(<<"http://amr.isi.edu/rdf/core-amr#", "AMR">>) >>
\* a declaration every converted sentence repeats
SharedTriple ==
    << URIRef(<<"http://amr.isi.edu/rdf/amr-terms#", "thing">>),
       RDF_type,
       URIRef(<<"http://amr.isi.edu/rdf/core-amr#", "Concept">>) >>

\* serialized N3 text: a sequence of statements, each one triple or a
\* piece of text that is not a statement
Statement(t) == [wf |-> TRUE, t |-> t]
Garbage == [wf |-> FALSE, t |-> <<>>]

Stdout(kind, i) ==
    CASE kind = "ok" -> <<Statement(OwnTriple(i)), Statement(SharedTriple)>>
      [] kind = "malformed" -> <<Statement(OwnTriple(i)), Garbage, Statement(SharedTriple)>>
      [] kind = "fail" -> <<>>
      [] OTHER -> <<>>

\* exception leaving Popen/communicate ("" = none).  A non-zero exit status
\* raises nothing: Popen does not check the status.
PopenRaises(kind) == IF kind = "undecodable" THEN "UnicodeDecodeError" ELSE ""

\* variant: the list is emptied before the first sentence of a pass is converted
convert_amr_to_rdf_resetting(rdf, conv, i) ==
    LET exc == PopenRaises(conv[i + 1])
        base == IF i = 0 THEN <<>> ELSE rdf
    IN IF exc = ""
       THEN [rdf |-> Append(base, Stdout(conv[i + 1], i)), raised |-> "", printed |-> <<>>]
       ELSE [rdf |-> base, raised |-> exc, printed |-> <<>>]

\* convert_amr_to_rdf(sentence_id), sentence_id = i (0-based)
convert_amr_to_rdf(rdf, conv, i) ==
    LET exc == PopenRaises(conv[i + 1])
    IN IF exc = ""
       THEN [rdf |-> Append(rdf, Stdout(conv[i + 1], i)), raised |-> "", printed |-> <<>>]
       ELSE IF exc = "CalledProcessError"
       THEN [rdf |-> rdf, raised |-> "", printed |-> <<"Error">>]
       ELSE [rdf |-> rdf, raised |-> exc, printed |-> <<>>]

RECURSIVE all_sentences_from(_, _, _, _)
\* the loop of all_sentences_to_rdf from index i on; an exception ends it
all_sentences_from(rdf, conv, n, i) ==
    IF i >= n THEN [rdf |-> rdf, raised |-> "", printed |-> <<>>]
    ELSE LET r == convert_amr_to_rdf(rdf, conv, i)
         IN IF r.raised # "" THEN r
            ELSE all_sentences_from(r.rdf, conv, n, i + 1)

all_sentences_to_rdf(rdf, conv, n) == all_sentences_from(rdf, conv, n, 0)

\* ------------------------------------------------------------ assembly
RECURSIVE ParseFrom(_, _, _)
\* rdflib.Graph().parse(data=text, format="n3"): triples are added to the
\* graph as they are read; a syntax error raises and leaves what was read
ParseFrom(text, k, g) ==
    IF k > Len(text) THEN [ok |-> TRUE, graph |-> g]
    ELSE IF text[k].wf THEN ParseFrom(text, k + 1, g \cup {text[k].t})
    ELSE [ok |-> FALSE, graph |-> g]

parse(text) == ParseFrom(text, 1, {})

InsufficientMsg == "Error generating document RDF: Insufficient sentences to generate document RDF. Process all sentences first."
ParseErrorMsg == "Error generating document RDF: Bad syntax"

RECURSIVE FoldFragmentsInPlace(_, _, _)
\* variant: document_rdf_graph.parse(data=graph, format="n3"), no temporary graph
FoldFragmentsInPlace(rdf, k, g) ==
    IF k > Len(rdf) THEN [graph |-> g, printed |-> <<>>]
    ELSE LET temp_graph == parse(rdf[k])
         IN IF temp_graph.ok THEN FoldFragmentsInPlace(rdf, k + 1, g \cup temp_graph.graph)
            ELSE [graph |-> g \cup temp_graph.graph, printed |-> <<ParseErrorMsg>>]

RECURSIVE FoldFragments(_, _, _)
\* for graph in self.sentences_rdf: document_rdf_graph += temp_graph.parse(...)
\* inside the try: the first parse error leaves the loop
FoldFragments(rdf, k, g) ==
    IF k > Len(rdf) THEN [graph |-> g, printed |-> <<>>]
    ELSE LET temp_graph == parse(rdf[k])
         IN IF temp_graph.ok THEN FoldFragments(rdf, k + 1, g \cup temp_graph.graph)
            ELSE [graph |-> g, printed |-> <<ParseErrorMsg>>]

generate_document_rdf(rdf) ==
    IF Len(rdf) < 2 THEN [graph |-> {}, printed |-> <<InsufficientMsg>>]
    ELSE FoldFragments(rdf, 1, {})

\* ------------------------------------------------------------- linking
\* a mention is <<sentence_index, variable_name>>; a cluster is a sequence
\* of mentions; coreference_clusters is a function relation key -> cluster
generate_clusters_uris(clusters) ==
    [rel \in DOMAIN clusters |-> <<"http://example.org/cluster/", rel>>]

\* variant: the 0-based index is used as it is
variable_node_uri_no_offset(article_namespace, sentence_index, variable_name) ==
    <<AmrData>> \o Format(article_namespace) \o <<".sent">>
        \o Decimal(sentence_index) \o <<"#">> \o variable_name

variable_node_uri(article_namespace, sentence_index, variable_name) ==
    <<AmrData>> \o Format(article_namespace) \o <<".sent">>
        \o Decimal(sentence_index + 1) \o <<"#">> \o variable_name

\* variant: the test is len(cluster) > 0
ClusterTriplesNonEmpty(relation, cluster, article_namespace, relations_uris) ==
    IF Len(cluster) > 0
    THEN LET relation_node_uri == relations_uris[relation]
         IN {<<URIRef(relation_node_uri), RDF_type, coreference("Cluster")>>,
             <<URIRef(relation_node_uri), RDFS_label, Literal(<<"Cluster ", relation>>)>>}
            \cup {<<URIRef(variable_node_uri(article_namespace, cluster[m][1], cluster[m][2])),
                    coreference("sameAs"),
                    URIRef(relation_node_uri)>> : m \in 1..Len(cluster)}
    ELSE {}

ClusterTriples(relation, cluster, article_namespace, relations_uris) ==
    IF Len(cluster) > 1
    THEN LET relation_node_uri == relations_uris[relation]
         IN {<<URIRef(relation_node_uri), RDF_type, coreference("Cluster")>>,
             <<URIRef(relation_node_uri), RDFS_label, Literal(<<"Cluster ", relation>>)>>}
            \cup {<<URIRef(variable_node_uri(article_namespace, cluster[m][1], cluster[m][2])),
                    coreference("sameAs"),
                    URIRef(relation_node_uri)>> : m \in 1..Len(cluster)}
    ELSE {}

\* variant: the links are added to a new graph instead of g
OverlayOnNewGraph(g, clusters, article_namespace, relations_uris) ==
    UNION {ClusterTriples(rel, clusters[rel], article_namespace, relations_uris) :
             rel \in DOMAIN clusters}

\* the loop over self.coreference_clusters.items(): g.add(...) on g
Overlay(g, clusters, article_namespace, relations_uris) ==
    g \cup UNION {ClusterTriples(rel, clusters[rel], article_namespace, relations_uris) :
                    rel \in DOMAIN clusters}

link_coreference_in_rdf(rdf, conv, snts, clusters) ==
    LET a == all_sentences_to_rdf(rdf, conv, Len(snts))
    IN IF a.raised # ""
       THEN [rdf |-> a.rdf, raised |-> a.raised, graph |-> {}, printed |-> a.printed]
       ELSE LET g == generate_document_rdf(a.rdf)
                article_namespace == extract_article_namespace(snts)
                relations_uris == generate_clusters_uris(clusters)
            IN [rdf |-> a.rdf, raised |-> "",
                graph |-> Overlay(g.graph, clusters, article_namespace, relations_uris),
                printed |-> a.printed \o g.printed]

\* --------------------------------------------------------------- state
VARIABLES
    sentences,              \* self.sentences: the metadata string of each sentence
    converter,              \* what the external script does for each sentence
    sentences_rdf,          \* self.sentences_rdf
    coreference_clusters,   \* self.coreference_clusters
    lastCall,               \* the last method call and what its caller got back
    passes,                 \* calls of all_sentences_to_rdf so far (direct or through link)
    singles                 \* direct calls of convert_amr_to_rdf so far

vars == <<sentences, converter, sentences_rdf, coreference_clusters, lastCall, passes, singles>>

n == Len(sentences)

Mention(sentence_index, variable_name) == <<sentence_index, variable_name>>

EmptyClusters == [rel \in {} |-> <<>>]
\* mappings the inference collaborator can return; sentence indices are
\* positions in the list of graphs it was given
ClusterChoices(len) ==
    {EmptyClusters,
     [rel \in {"r1"} |-> <<Mention(0, <<"x">>), Mention(0, <<"x">>)>>]}
    \cup (IF len = 1
          THEN {[rel \in {"r1"} |-> <<Mention(0, <<"x">>)>>],
                [rel \in {"r1"} |-> <<Mention(0, <<"x">>), Mention(0, <<"y">>)>>]}
          ELSE {[rel \in {"r1", "r2"} |->
                    IF rel = "r1" THEN <<Mention(0, <<"x">>), Mention(1, <<"x", "3">>)>>
                    ELSE <<Mention(1, <<"z">>)>>]})
    \cup (IF len = 2 THEN {[rel \in {"r1"} |-> <<>>]} ELSE {})
    \cup (IF len >= 3
          THEN {[rel \in {"r1"} |-> <<Mention(2, <<"x", "3">>), Mention(0, <<"x">>)>>]}
          ELSE {})

Call(op, raised, ret, graph, printed, value) ==
    [op |-> op, raised |-> raised, ret |-> ret, graph |-> graph,
     printed |-> printed, value |-> value]

\* Document(title, paragraph, paragraph_amr, sentences)
Init ==
    /\ \E len \in 1..MaxSentences, first \in FirstMetaChoices :
          sentences = [i \in 1..len |-> IF i = 1 THEN first ELSE LaterMeta(i - 1)]
    /\ converter \in [1..Len(sentences) -> ConverterKinds]
    /\ sentences_rdf = <<>>
    /\ coreference_clusters = EmptyClusters
    /\ lastCall = Call("__init__", "", "Document", {}, <<>>, None)
    /\ passes = 0
    /\ singles = 0

\* resolve_coreference(): stores what the inference collaborator returns
ResolveCoreference ==
    /\ \E cluster_dict \in ClusterChoices(n) :
          /\ coreference_clusters' = cluster_dict
          /\ lastCall' = Call("resolve_coreference", "", "dict", {}, <<>>, None)
    /\ UNCHANGED <<sentences, converter, sentences_rdf, passes, singles>>

\* convert_amr_to_rdf(sentence_id) called on its own
ConvertAmrToRdf ==
    /\ singles < MaxSingle
    /\ \E sentence_id \in 0..(n - 1) :
          LET r == convert_amr_to_rdf(sentences_rdf, converter, sentence_id)
          IN /\ sentences_rdf' = r.rdf
             /\ lastCall' = Call("convert_amr_to_rdf", r.raised,
                                 IF r.raised = "" THEN "NoneType" ELSE "", {},
                                 r.printed, None)
    /\ singles' = singles + 1
    /\ UNCHANGED <<sentences, converter, coreference_clusters, passes>>

\* all_sentences_to_rdf()
AllSentencesToRdf ==
    /\ passes < MaxPasses
    /\ LET r == all_sentences_to_rdf(sentences_rdf, converter, n)
       IN /\ sentences_rdf' = r.rdf
          /\ lastCall' = Call("all_sentences_to_rdf", r.raised,
                              IF r.raised = "" THEN "NoneType" ELSE "", {},
                              r.printed, None)
    /\ passes' = passes + 1
    /\ UNCHANGED <<sentences, converter, coreference_clusters, singles>>

\* generate_document_rdf()
GenerateDocumentRdf ==
    /\ LET r == generate_document_rdf(sentences_rdf)
       IN lastCall' = Call("generate_document_rdf", "", "Graph", r.graph, r.printed, None)
    /\ UNCHANGED <<sentences, converter, sentences_rdf, coreference_clusters, passes, singles>>

\* link_coreference_in_rdf()
LinkCoreferenceInRdf ==
    /\ passes < MaxPasses
    /\ LET r == link_coreference_in_rdf(sentences_rdf, converter, sentences,
                                        coreference_clusters)
       IN /\ sentences_rdf' = r.rdf
          /\ lastCall' = Call("link_coreference_in_rdf", r.raised,
                              IF r.raised = "" THEN "Graph" ELSE "", r.graph,
                              r.printed, None)
    /\ passes' = passes + 1
    /\ UNCHANGED <<sentences, converter, coreference_clusters, singles>>

\* extract_article_namespace()
ExtractArticleNamespace ==
    /\ LET ns == extract_article_namespace(sentences)
       IN lastCall' = Call("extract_article_namespace", "",
                           IF ns.isNone THEN "NoneType" ELSE "str", {}, <<>>, ns)
    /\ UNCHANGED <<sentences, converter, sentences_rdf, coreference_clusters, passes, singles>>

Next ==
    \/ ResolveCoreference
    \/ ConvertAmrToRdf
    \/ AllSentencesToRdf
    \/ GenerateDocumentRdf
    \/ LinkCoreferenceInRdf
    \/ ExtractArticleNamespace

Spec == Init /\ [][Next]_vars

TypeOK ==
    /\ Len(sentences) \in 1..MaxSentences
    /\ Len(sentences_rdf) <= MaxPasses * MaxSentences + MaxSingle
    /\ lastCall.raised \in {"", "UnicodeDecodeError"}

\* ---------------------------------------------------------- properties
Returned(op) == lastCall.op = op /\ lastCall.raised = ""

WellFormed(k) == parse(sentences_rdf[k]).ok
TriplesOf(k) == parse(sentences_rdf[k]).graph

ClusterNode(rel) == URIRef(<<"http://example.org/cluster/", rel>>)
SameAsEdges(g, rel) ==
    {t \in g : t[2] = coreference("sameAs") /\ t[3] = ClusterNode(rel)}
Linked == {rel \in DOMAIN coreference_clusters : Len(coreference_clusters[rel]) >= 2}
MentionsOf(rel) ==
    {coreference_clusters[rel][m] : m \in 1..Len(coreference_clusters[rel])}

\* sentences whose conversion succeeded and whose output is in sentences_rdf
Converted ==
    {j \in 1..n : /\ converter[j] \in {"ok", "malformed"}
                  /\ \E k \in 1..Len(sentences_rdf) :
                        sentences_rdf[k] = Stdout(converter[j], j - 1)}

\* C1: generate_document_rdf on two or more fragments keeps the triples of
\* every well-formed fragment, before or after a malformed one, and reports
\* the malformed ones.
C1_BadFragmentDoesNotAbort ==
    (Returned("generate_document_rdf") /\ Len(sentences_rdf) >= 2) =>
        /\ \A k \in 1..Len(sentences_rdf) : WellFormed(k) => TriplesOf(k) \subseteq lastCall.graph
        /\ (\E k \in 1..Len(sentences_rdf) : ~WellFormed(k)) => lastCall.printed # <<>>

\* C2: with fewer than two successfully converted fragments the caller of
\* generate_document_rdf or link_coreference_in_rdf gets an
\* InsufficientFragments condition and no graph.
C2_InsufficientFragmentsReported ==
    ((Returned("generate_document_rdf") \/ Returned("link_coreference_in_rdf"))
        /\ Cardinality(Converted) < 2) =>
        /\ lastCall.ret = "InsufficientFragments"
        /\ lastCall.graph = {}

\* C3: when the converter fails for exactly one sentence, a pass over the
\* sentences stores no fragment for it and records an error for it.
C3_ConverterFailureRecorded ==
    (/\ Returned("all_sentences_to_rdf") /\ passes = 1 /\ singles = 0 /\ n >= 2
     /\ Cardinality({j \in 1..n : ExitCode(converter[j]) # 0}) = 1) =>
        /\ Len(sentences_rdf) = n - 1
        /\ lastCall.printed # <<>>

\* C4: the linked graph has, for each cluster of two or more mentions, its
\* cluster node with the type and label triples and exactly one sameAs edge
\* per mention, mention -> cluster; a smaller cluster has no node and no edge.
C4_ClusterNodesAndEdges ==
    Returned("link_coreference_in_rdf") =>
        LET g == lastCall.graph
            ns == extract_article_namespace(sentences)
        IN /\ {t[1] : t \in {u \in g : u[2] = RDF_type /\ u[3] = coreference("Cluster")}}
                 = {ClusterNode(rel) : rel \in Linked}
           /\ \A rel \in Linked :
                 /\ <<ClusterNode(rel), RDFS_label, Literal(<<"Cluster ", rel>>)>> \in g
                 /\ SameAsEdges(g, rel) =
                       {<<URIRef(variable_node_uri(ns, m[1], m[2])),
                          coreference("sameAs"), ClusterNode(rel)>> : m \in MentionsOf(rel)}
                 /\ Cardinality(SameAsEdges(g, rel)) = Cardinality(MentionsOf(rel))
           /\ \A rel \in DOMAIN coreference_clusters \ Linked :
                 \A t \in g : t[1] # ClusterNode(rel) /\ t[3] # ClusterNode(rel)

C4_Witness ==
    /\ Returned("link_coreference_in_rdf")
    /\ DOMAIN coreference_clusters = {"r1", "r2"}
    /\ Cardinality(SameAsEdges(lastCall.graph, "r1")) = 2
    /\ SameAsEdges(lastCall.graph, "r2") = {}

\* C5: a second link_coreference_in_rdf call right after a first one returns
\* the same triple set.
C5_LinkTwiceSameGraph ==
    [][(/\ Returned("link_coreference_in_rdf")
        /\ lastCall'.op = "link_coreference_in_rdf" /\ lastCall'.raised = ""
        /\ passes' = passes + 1)
       => lastCall'.graph = lastCall.graph]_vars

\* C6: when the first sentence has no identifier field, linking fails: no
\* graph is returned and no sameAs edge is built.
C6_MissingNamespaceIsFatal ==
    (lastCall.op = "link_coreference_in_rdf" /\ sentences[1] \in {MetaNoId, MetaBlankInId}) =>
        /\ lastCall.ret # "Graph"
        /\ \A t \in lastCall.graph : t[2] # coreference("sameAs")

\* the namespace written in the identifier field of each metadata string
NamespaceText(meta) ==
    CASE meta = MetaWithId -> <<"a", "1">>
      [] meta = MetaDotted -> <<"b">>

\* C7: the subject of the sameAs edge of mention (i, v) is
\* http://amr.isi.edu/amr_data/<namespace>.sent<i+1>#<v>, with the namespace
\* of the first sentence's identifier field for every mention.
C7_MentionUri ==
    (Returned("link_coreference_in_rdf") /\ sentences[1] \in {MetaWithId, MetaDotted}) =>
        \A rel \in Linked :
            {t[1] : t \in SameAsEdges(lastCall.graph, rel)} =
                {URIRef(<<"http://amr.isi.edu/amr_data/">> \o NamespaceText(sentences[1])
                        \o <<".sent", Digit(m[1] + 1), "#">> \o m[2]) : m \in MentionsOf(rel)}

C7_Witness ==
    /\ Returned("link_coreference_in_rdf")
    /\ sentences[1] = MetaWithId
    /\ Mention(1, <<"x", "3">>) \in UNION {MentionsOf(rel) : rel \in Linked}
    /\ <<URIRef(<<"http://amr.isi.edu/amr_data/", "a", "1", ".sent", "2", "#", "x", "3">>),
         coreference("sameAs"), ClusterNode("r1")>> \in lastCall.graph

\* C8: the graph generate_document_rdf returns is the union of the complete
\* triple sets of some of the well-formed fragments: no fragment is half
\* applied, and a fragment that fails to parse leaves nothing.
C8_AtomicFold ==
    Returned("generate_document_rdf") =>
        \E S \in SUBSET {k \in 1..Len(sentences_rdf) : WellFormed(k)} :
            lastCall.graph = UNION {TriplesOf(k) : k \in S}

C8_Witness ==
    /\ Returned("generate_document_rdf")
    /\ \E k \in 2..Len(sentences_rdf) :
          /\ ~WellFormed(k) /\ TriplesOf(k) # {}
          /\ TriplesOf(k) \cap lastCall.graph = {}
          /\ TriplesOf(1) \subseteq lastCall.graph /\ TriplesOf(1) # {}

\* C9: the linked graph contains every triple of the assembled graph and
\* equals it when there are no clusters; linking changes neither sentences
\* nor coreference_clusters, and sentences_rdf only by the conversion pass.
C9_OverlayOnlyAdds ==
    /\ [](Returned("link_coreference_in_rdf") =>
            /\ generate_document_rdf(sentences_rdf).graph \subseteq lastCall.graph
            /\ (DOMAIN coreference_clusters = {} =>
                   lastCall.graph = generate_document_rdf(sentences_rdf).graph))
    /\ [][lastCall'.op = "link_coreference_in_rdf" =>
            /\ sentences' = sentences
            /\ coreference_clusters' = coreference_clusters
            /\ sentences_rdf' = all_sentences_to_rdf(sentences_rdf, converter, n).rdf]_vars

C9_Witness ==
    /\ Returned("link_coreference_in_rdf")
    /\ generate_document_rdf(sentences_rdf).graph # {}
    /\ Linked # {}
    /\ lastCall.graph # generate_document_rdf(sentences_rdf).graph

\* C10: sentences_rdf only grows: after k passes that do not raise it has
\* k * n entries, entry j being the output for sentence j mod n; the
\* "fewer than 2" test of generate_document_rdf looks at that length.
C10_AppendOnly ==
    /\ (singles = 0 /\ \A j \in 1..n : converter[j] # "undecodable") =>
          /\ Len(sentences_rdf) = passes * n
          /\ \A k \in 1..Len(sentences_rdf) :
                sentences_rdf[k] = Stdout(converter[((k - 1) % n) + 1], (k - 1) % n)
    /\ Returned("generate_document_rdf") =>
          (lastCall.printed = <<InsufficientMsg>> <=> Len(sentences_rdf) < 2)

C10_Witness ==
    /\ Returned("generate_document_rdf")
    /\ n = 1 /\ converter[1] = "fail" /\ passes = 2 /\ singles = 0
    /\ Len(sentences_rdf) = 2
    /\ lastCall.printed = <<>>
====
